---- MODULE Spec2Model ----
(***************************************************************************)
(* create-lavalink (bin/cli.js): the createLavalink wizard and the         *)
(* downloadFile streaming download with its interval-driven progress line. *)
(*                                                                         *)
(* One Node.js event loop runs everything.  A step of the model is one     *)
(* run-to-suspension of JavaScript: from the callback or await             *)
(* continuation that starts it to the next await.  The interval callback   *)
(* and the write stream's file-system callbacks are macrotasks; an await   *)
(* continuation whose promise has settled is a microtask and runs before   *)
(* any macrotask.                                                          *)
(*                                                                         *)
(* Bytes are not stored one by one: the response body is the byte          *)
(* positions 0 .. N-1, and a chunk is the run [first, first + len) of      *)
(* them, so any reordering, duplication or loss of chunks changes the      *)
(* sequence of runs.                                                       *)
(***************************************************************************)
EXTENDS Integers, Sequences, FiniteSets, TLC

VARIABLES
    pc,             \* createLavalink: the await it is suspended at
    exitCode,       \* "none" while the process runs, else the exit status
    versionList,    \* the release tags fetched from the release index
    runScript,      \* answer to "Do you need to get the run script file?"
    exampleYml,     \* what the example configuration fetch returned
    files,          \* configuration/launcher files written by createLavalink
    log,            \* the fetches, the download and the file writes made, in order
    dl,             \* downloadFile: "idle", "fetching", "reading", "resolved", "rejected"
    response,       \* the response of fetch(url)
    thrown,         \* the error downloadFile rejected with
    body,           \* what response.body's reader will deliver
    nread,          \* number of chunks reader.read() has delivered
    totalSize,      \* response.headers.get('content-length')
    downloadedSize, \* let downloadedSize
    i,              \* let i (spinner frame counter, kept modulo the frame count)
    timer,          \* the interval is scheduled (setInterval .. clearInterval)
    screen,         \* the line logUpdate last rendered (it replaces the previous one)
    fsState,        \* fileStream: "none", "opening", "open", "closed"
    ended,          \* fileStream.end() has been called
    buffer,         \* chunks handed to fileStream.write and not yet on disk
    disk            \* content of the destination path

vars == <<pc, exitCode, versionList, runScript, exampleYml, files, log,
          dl, response, thrown, body, nread, totalSize, downloadedSize, i,
          timer, screen, fsState, ended, buffer, disk>>

wizardVars == <<pc, exitCode, versionList, runScript, exampleYml, files, log>>
fetchVars == <<response, thrown, body, totalSize>>
streamVars == <<fsState, ended, buffer, disk>>

-----------------------------------------------------------------------------
(* Bounds of the model *)

\* Largest number of chunks a response body delivers.
MaxChunks == 3

\* Chunk sizes the reader delivers: 5243 bytes is the smallest count that
\* renders as 0.01 MB, 524288 bytes is half a megabyte.
ChunkLens == {5243, 524288}

-----------------------------------------------------------------------------
(* Program constants and pure functions *)

loadingFrames ==
    <<"dots0", "dots1", "dots2", "dots3", "dots4",
      "dots5", "dots6", "dots7", "dots8", "dots9">>

\* The success marker of the final line.
CheckMark == "check"

\* x / 1024 / 1024
BytesPerMB == 1024 * 1024

\* (x / 1024 / 1024).toFixed(2), as the number of hundredths of a megabyte
\* shown: toFixed rounds to the nearest hundredth, a tie going up, and
\* x / 2^20 is exact in a double.
ToFixed2(x) == (100 * x + BytesPerMB \div 2) \div BytesPerMB

\* mutant: the branch on a missing header is dropped, null / 1024 / 1024 is 0
totaledSizeMB_NoBranch(size) ==
    [unknown |-> FALSE, hundredths |-> IF size.present THEN ToFixed2(size.value) ELSE 0]

\* const totaledSizeMB = totalSize ? (...).toFixed(2) : 'unknown'
totaledSizeMB(size) ==
    IF size.present
    THEN [unknown |-> FALSE, hundredths |-> ToFixed2(size.value)]
    ELSE [unknown |-> TRUE, hundredths |-> 0]

NoLine ==
    [kind |-> "none", glyph |-> "", downloaded |-> 0,
     total |-> [unknown |-> TRUE, hundredths |-> 0]]

\* `${frame} ${text} (${downloadedMB} MB / ${totaledSizeMB} MB)`
TickLine(frame, size, total) ==
    [kind |-> "tick", glyph |-> frame, downloaded |-> ToFixed2(size),
     total |-> totaledSizeMB(total)]

\* `\x1b[32m(check)\x1b[0m ${text} (${...toFixed(2)} MB / ${totaledSizeMB} MB)`
FinalLine(size, total) ==
    [kind |-> "final", glyph |-> CheckMark, downloaded |-> ToFixed2(size),
     total |-> totaledSizeMB(total)]

RECURSIVE SumLen(_)
\* Number of bytes in a sequence of chunks.
SumLen(chunks) ==
    IF chunks = <<>> THEN 0 ELSE Head(chunks).len + SumLen(Tail(chunks))

RECURSIVE MkChunks(_, _)
\* The chunks of a body delivered in pieces of the given lengths.
MkChunks(lens, first) ==
    IF lens = <<>> THEN <<>>
    ELSE <<[first |-> first, len |-> Head(lens)]>>
         \o MkChunks(Tail(lens), first + Head(lens))

\* Every way to cut a body into at most MaxChunks chunks.
Partitions == UNION {[1..n -> ChunkLens] : n \in 0..MaxChunks}

\* Content the destination path may hold before the run.
OldData == [first |-> -1, len |-> 1]

NoError == [kind |-> "none", text |-> ""]
NoResponse == [status |-> "none", statusText |-> ""]
NoBody == [chunks |-> <<>>, end |-> "end"]
NoHeader == [present |-> FALSE, value |-> 0]

-----------------------------------------------------------------------------
(* Initial state: createLavalink() has been called and awaits the release  *)
(* list.                                                                   *)

Init ==
    /\ pc = "fetchVersions"
    /\ exitCode = "none"
    /\ versionList = <<>>
    /\ runScript = FALSE
    /\ exampleYml = "none"
    /\ files = {}
    /\ log = <<"fetch releases">>
    /\ dl = "idle"
    /\ response = NoResponse
    /\ thrown = NoError
    /\ body = NoBody
    /\ nread = 0
    /\ totalSize = NoHeader
    /\ downloadedSize = 0
    /\ i = 0
    /\ timer = FALSE
    /\ screen = NoLine
    /\ fsState = "none"
    /\ ended = FALSE
    /\ buffer = <<>>
    /\ disk \in {<<>>, <<OldData>>}

Running == exitCode = "none"

\* process.exit(code): nothing of the process runs afterwards.
Exit(code) ==
    /\ exitCode' = code
    /\ UNCHANGED <<pc, versionList, runScript, exampleYml, files, log>>

\* The continuation of `await downloadFile(...)` is queued: it runs before
\* any timer or file-system callback.
MicrotaskPending == pc = "download" /\ dl \in {"resolved", "rejected"}

Macrotask == Running /\ ~MicrotaskPending

-----------------------------------------------------------------------------
(* downloadFile *)

\* mutant: the status is not checked
StatusFails_Unchecked(r) == FALSE

\* if (!response.ok)
StatusFails(r) == r.status # "ok"

\* downloadedSize += value.length
Counted(size, value) == size + value.len

\* mutant: the chunk is counted and never handed to the stream
WriteChunk_Dropped(buf, value) == buf

\* fileStream.write(value)
WriteChunk(buf, value) == Append(buf, value)

\* mutant: the end of the body does not leave the loop, and value.length
\* of the undefined value throws
ReadEnd_NoBreak ==
    /\ exitCode = "none"
    /\ dl = "reading"
    /\ nread = Len(body.chunks)
    /\ body.end = "end"
    /\ dl' = "rejected"
    /\ thrown' = [kind |-> "read", text |-> "TypeError"]
    /\ UNCHANGED <<response, body, totalSize>>
    /\ UNCHANGED <<nread, downloadedSize, i, timer, screen>>
    /\ UNCHANGED streamVars
    /\ UNCHANGED wizardVars

\* mutant: the interval is left scheduled
ClearInterval_Missing(t) == t

\* clearInterval(interval)
ClearInterval(t) == FALSE

\* What fetch(url) can resolve with.
Responses ==
    {[status |-> "ok", statusText |-> "OK"],
     [status |-> "notok", statusText |-> "Not Found"]}

\* The content-length headers a body of the given chunks may come with.
Headers(chunks) == {NoHeader, [present |-> TRUE, value |-> SumLen(chunks)]}

\* await fetch(url) throws: the request could not be made.
FetchRejects ==
    /\ Running
    /\ dl = "fetching"
    /\ dl' = "rejected"
    /\ thrown' = [kind |-> "network", text |-> "fetch failed"]
    /\ UNCHANGED <<response, body, totalSize, nread, downloadedSize, i, timer, screen>>
    /\ UNCHANGED streamVars
    /\ UNCHANGED wizardVars

\* await fetch(url) returns; lines 30-51 run up to the first reader.read().
FetchResponse ==
    /\ Running
    /\ dl = "fetching"
    /\ \E r \in Responses :
        /\ response' = r
        /\ IF StatusFails(r)
           THEN /\ dl' = "rejected"
                /\ thrown' = [kind |-> "status", text |-> r.statusText]
                /\ UNCHANGED <<body, totalSize, nread, downloadedSize, i, timer>>
                /\ UNCHANGED <<fsState>>
           ELSE /\ \E lens \in Partitions, e \in {"end", "error", "stall"} :
                     /\ body' = [chunks |-> MkChunks(lens, 0), end |-> e]
                     /\ totalSize' \in Headers(body'.chunks)
                /\ downloadedSize' = 0
                /\ i' = 0
                /\ timer' = TRUE
                /\ fsState' = "opening"
                /\ nread' = 0
                /\ dl' = "reading"
                /\ UNCHANGED thrown
    /\ UNCHANGED <<screen, ended, buffer, disk>>
    /\ UNCHANGED wizardVars

\* reader.read() resolves with { done: false, value }.
ReadChunk ==
    /\ Running
    /\ dl = "reading"
    /\ nread < Len(body.chunks)
    /\ LET value == body.chunks[nread + 1] IN
        /\ downloadedSize' = Counted(downloadedSize, value)
        /\ buffer' = WriteChunk(buffer, value)
    /\ nread' = nread + 1
    /\ UNCHANGED <<dl, i, timer, screen, fsState, ended, disk>>
    /\ UNCHANGED fetchVars
    /\ UNCHANGED wizardVars

\* reader.read() resolves with { done: true }: the loop breaks, the stream is
\* ended, and the continuation of `await writeToFile()` runs (lines 56-63).
ReadEnd ==
    /\ Running
    /\ dl = "reading"
    /\ nread = Len(body.chunks)
    /\ body.end = "end"
    /\ ended' = TRUE
    /\ timer' = ClearInterval(timer)
    /\ screen' = FinalLine(downloadedSize, totalSize)
    /\ dl' = "resolved"
    /\ UNCHANGED <<nread, downloadedSize, i, fsState, buffer, disk>>
    /\ UNCHANGED fetchVars
    /\ UNCHANGED wizardVars

\* reader.read() rejects: writeToFile and then downloadFile reject at line 59.
ReadError ==
    /\ Running
    /\ dl = "reading"
    /\ nread = Len(body.chunks)
    /\ body.end = "error"
    /\ dl' = "rejected"
    /\ thrown' = [kind |-> "read", text |-> "terminated"]
    /\ UNCHANGED <<response, body, totalSize>>
    /\ UNCHANGED <<nread, downloadedSize, i, timer, screen>>
    /\ UNCHANGED streamVars
    /\ UNCHANGED wizardVars

\* The setInterval callback.
Tick ==
    /\ Macrotask
    /\ timer
    /\ screen' = TickLine(loadingFrames[(i % Len(loadingFrames)) + 1],
                          downloadedSize, totalSize)
    /\ i' = (i + 1) % Len(loadingFrames)
    /\ UNCHANGED <<dl, nread, downloadedSize, timer>>
    /\ UNCHANGED fetchVars
    /\ UNCHANGED streamVars
    /\ UNCHANGED wizardVars

\* fs.createWriteStream(destination): the file is opened with flag 'w'
\* (created, or truncated) in a later turn of the event loop.
Open ==
    /\ Macrotask
    /\ fsState = "opening"
    /\ fsState' = "open"
    /\ disk' = <<>>
    /\ UNCHANGED <<ended, buffer>>
    /\ UNCHANGED <<dl, nread, downloadedSize, i, timer, screen>>
    /\ UNCHANGED fetchVars
    /\ UNCHANGED wizardVars

\* The stream writes its oldest buffered chunk to the file.
Flush ==
    /\ Macrotask
    /\ fsState = "open"
    /\ buffer # <<>>
    /\ disk' = Append(disk, Head(buffer))
    /\ buffer' = Tail(buffer)
    /\ UNCHANGED <<fsState, ended>>
    /\ UNCHANGED <<dl, nread, downloadedSize, i, timer, screen>>
    /\ UNCHANGED fetchVars
    /\ UNCHANGED wizardVars

\* After end(), once the buffer has drained, the stream finishes and closes
\* the file.
Close ==
    /\ Macrotask
    /\ fsState = "open"
    /\ ended
    /\ buffer = <<>>
    /\ fsState' = "closed"
    /\ UNCHANGED <<ended, buffer, disk>>
    /\ UNCHANGED <<dl, nread, downloadedSize, i, timer, screen>>
    /\ UNCHANGED fetchVars
    /\ UNCHANGED wizardVars

downloadVars ==
    <<dl, response, thrown, body, nread, totalSize, downloadedSize, i, timer,
      screen, fsState, ended, buffer, disk>>

-----------------------------------------------------------------------------
(* createLavalink *)

\* The release list fetch settles: the list is kept, or the catch handler
\* exits with status 1.
FetchVersions ==
    /\ Running
    /\ pc = "fetchVersions"
    /\ \/ /\ versionList' \in {<<>>, <<"4.0.8">>}
          /\ pc' = "askDir"
          /\ UNCHANGED <<exitCode, runScript, exampleYml, files, log>>
       \/ Exit("1")
    /\ UNCHANGED downloadVars

\* The directory name is entered; the directory exists (ask to continue) or
\* is created with mkdir.
AskDir ==
    /\ Running
    /\ pc = "askDir"
    /\ \/ /\ pc' = "confirmOverwrite"
          /\ UNCHANGED <<exitCode, versionList, runScript, exampleYml, files, log>>
       \/ /\ pc' = "selectVersion"
          /\ UNCHANGED <<exitCode, versionList, runScript, exampleYml, files, log>>
       \/ Exit("1")
    /\ UNCHANGED downloadVars

\* "Directory already exists. Do you want to continue?"
ConfirmOverwrite ==
    /\ Running
    /\ pc = "confirmOverwrite"
    /\ \/ Exit("0")
       \/ /\ pc' = "selectVersion"
          /\ UNCHANGED <<exitCode, versionList, runScript, exampleYml, files, log>>
    /\ UNCHANGED downloadVars

\* The version prompt is built from versionList; versionList[0].tag_name
\* throws on an empty list, and the unhandled rejection ends the process.
SelectVersion ==
    /\ Running
    /\ pc = "selectVersion"
    /\ IF versionList = <<>>
       THEN Exit("1")
       ELSE /\ pc' = "askRunScript"
            /\ UNCHANGED <<exitCode, versionList, runScript, exampleYml, files, log>>
    /\ UNCHANGED downloadVars

\* The run script question is answered and downloadFile is called: it
\* issues fetch(jarUrl) and suspends.
AskRunScript ==
    /\ Running
    /\ pc = "askRunScript"
    /\ runScript' \in BOOLEAN
    /\ pc' = "download"
    /\ log' = Append(log, "downloadFile")
    /\ dl' = "fetching"
    /\ UNCHANGED <<exitCode, versionList, exampleYml, files>>
    /\ UNCHANGED <<response, thrown, body, nread, totalSize, downloadedSize, i,
                   timer, screen, fsState, ended, buffer, disk>>

\* mutant: the error is logged and the run goes on
DownloadCaught_Continue ==
    /\ Running
    /\ pc = "download"
    /\ dl = "rejected"
    /\ pc' = "fetchExample"
    /\ log' = Append(log, "fetch example")
    /\ UNCHANGED <<exitCode, versionList, runScript, exampleYml, files>>
    /\ UNCHANGED downloadVars

\* catch (err) { console.error(...); process.exit(1); }
DownloadCaught ==
    /\ Running
    /\ pc = "download"
    /\ dl = "rejected"
    /\ Exit("1")
    /\ UNCHANGED downloadVars

\* downloadFile resolved: the example configuration is requested.
DownloadReturned ==
    /\ Running
    /\ pc = "download"
    /\ dl = "resolved"
    /\ pc' = "fetchExample"
    /\ log' = Append(log, "fetch example")
    /\ UNCHANGED <<exitCode, versionList, runScript, exampleYml, files>>
    /\ UNCHANGED downloadVars

\* The example fetch settles: its text is kept (whatever the server sent),
\* or the catch handler exits with status 1.
FetchExample ==
    /\ Running
    /\ pc = "fetchExample"
    /\ \/ /\ exampleYml' \in {"template", "other"}
          /\ pc' = "askNeedConfig"
          /\ UNCHANGED <<exitCode, versionList, runScript, files, log>>
       \/ /\ exitCode' = "1"
          /\ UNCHANGED <<pc, versionList, runScript, exampleYml, files, log>>
    /\ UNCHANGED downloadVars

\* "Do you need to config application.yml?": yes leads to the address
\* prompt, whose default json.server.address throws unless the text is the
\* template; no leads to the comment question.
AskNeedConfig ==
    /\ Running
    /\ pc = "askNeedConfig"
    /\ \/ IF exampleYml = "template"
          THEN /\ pc' = "askAddress"
               /\ UNCHANGED <<exitCode, versionList, runScript, exampleYml, files, log>>
          ELSE Exit("1")
       \/ /\ pc' = "askNeedComment"
          /\ UNCHANGED <<exitCode, versionList, runScript, exampleYml, files, log>>
    /\ UNCHANGED downloadVars

\* The address, then the port are entered.
AskAddressPort ==
    /\ Running
    /\ pc \in {"askAddress", "askPort"}
    /\ pc' = IF pc = "askAddress" THEN "askPort" ELSE "askPassword"
    /\ UNCHANGED <<exitCode, versionList, runScript, exampleYml, files, log>>
    /\ UNCHANGED downloadVars

\* The files written from the last prompt to the end of createLavalink:
\* application.yml, then run.sh and run.bat if asked for.
Written(scripts) ==
    <<"application.yml">> \o (IF scripts THEN <<"run.sh", "run.bat">> ELSE <<>>)

\* The last prompt (password, or the comment question) is answered;
\* lines 158-202 run to the end.
WriteConfig ==
    /\ Running
    /\ pc \in {"askPassword", "askNeedComment"}
    /\ files' = files \cup {Written(runScript)[k] : k \in 1..Len(Written(runScript))}
    /\ log' = log \o Written(runScript)
    /\ pc' = "done"
    /\ UNCHANGED <<exitCode, versionList, runScript, exampleYml>>
    /\ UNCHANGED downloadVars

-----------------------------------------------------------------------------

Next ==
    \/ FetchVersions
    \/ AskDir
    \/ ConfirmOverwrite
    \/ SelectVersion
    \/ AskRunScript
    \/ FetchRejects
    \/ FetchResponse
    \/ ReadChunk
    \/ ReadEnd
    \/ ReadError
    \/ Tick
    \/ Open
    \/ Flush
    \/ Close
    \/ DownloadCaught
    \/ DownloadReturned
    \/ FetchExample
    \/ AskNeedConfig
    \/ AskAddressPort
    \/ WriteConfig

Spec == Init /\ [][Next]_vars

\* The event loop runs every callback that is ready: a read that has
\* returned, a timer that is due, a file-system completion, a settled await.
\* Prompts and the wizard's own fetches may stay unanswered.
Fairness ==
    /\ WF_vars(ReadChunk)
    /\ WF_vars(ReadEnd)
    /\ WF_vars(ReadError)
    /\ WF_vars(Tick)
    /\ WF_vars(Open)
    /\ WF_vars(Flush)
    /\ WF_vars(Close)
    /\ WF_vars(DownloadCaught)
    /\ WF_vars(DownloadReturned)

FairSpec == Spec /\ Fairness

-----------------------------------------------------------------------------
(* Properties *)

\* The bytes handed to fileStream.write so far, in order: those on disk
\* since the file was opened, then those still buffered.
Accepted == IF fsState \in {"open", "closed"} THEN disk \o buffer ELSE buffer

\* Nothing more will reach the destination: the stream has closed the file,
\* or the process has exited.
FileFinal == fsState = "closed" \/ ~Running

Range(s) == {s[k] : k \in 1..Len(s)}

ConfigFiles == {"application.yml", "run.sh", "run.bat"}

\* The call is reading a body one of whose reads never returns.
StalledBody == dl = "reading" /\ body.end = "stall"

\* C1: when the promise returned by downloadFile resolves, the destination
\* has been closed and no chunk handed to fileStream.write is still pending
\* in the write stream's buffer.
C1_ResolvedAfterFlush ==
    dl = "resolved" => (fsState = "closed" /\ buffer = <<>>)

\* C2: after a successful downloadFile call the destination file holds
\* exactly the bytes of the response body, in order, each chunk once, and
\* nothing of its earlier content; stated for the file as it is left once
\* nothing more is written to it.
C2_FileHoldsBody ==
    (dl = "resolved" /\ FileFinal) => disk = body.chunks

\* C3: a response whose status is not a success makes downloadFile reject
\* with an error carrying the status text, with no destination file opened
\* or written, no timer started and no progress line rendered.
C3_BadStatusRejectsFirst ==
    response.status = "notok" =>
        /\ dl = "rejected"
        /\ thrown = [kind |-> "status", text |-> response.statusText]
        /\ fsState = "none"
        /\ ~ended
        /\ buffer = <<>>
        /\ disk \in {<<>>, <<OldData>>}
        /\ ~timer
        /\ i = 0
        /\ screen = NoLine

C3_Witness ==
    /\ response.status = "notok"
    /\ dl = "rejected"
    /\ thrown.text = "Not Found"
    /\ exitCode = "1"

\* C4: downloadedSize starts at 0, never decreases, is changed only by the
\* read loop (a step that takes a chunk), and at completion equals the sum
\* of the lengths of the chunks received and the final size of the
\* destination file (the file as it is left once nothing more is written).
C4_CounterIsFinalFileSize ==
    /\ [](dl \in {"idle", "fetching"} => downloadedSize = 0)
    /\ [][downloadedSize' >= downloadedSize]_vars
    /\ [][downloadedSize' # downloadedSize
            => dl = "reading" /\ nread' = nread + 1]_vars
    /\ [](dl = "resolved" => downloadedSize = SumLen(body.chunks))
    /\ []((dl = "resolved" /\ FileFinal) => downloadedSize = SumLen(disk))

\* C5, as stated: the downloaded amount a rendered line shows never exceeds
\* the number of bytes handed to the destination.
C5_ShownAtMostWritten ==
    screen.kind # "none" =>
        screen.downloaded * BytesPerMB <= 100 * SumLen(Accepted)

\* C5, amended: the amount a rendered line shows exceeds the number of bytes
\* handed to the destination by no more than rounding to the nearest
\* hundredth of a megabyte adds (half a hundredth).
C5_ShownWithinRounding ==
    screen.kind # "none" =>
        screen.downloaded * BytesPerMB <= 100 * SumLen(Accepted) + BytesPerMB \div 2

C5_Witness ==
    /\ dl = "reading"
    /\ screen.kind = "tick"
    /\ screen.downloaded > 0
    /\ nread >= 2
    /\ SumLen(Accepted) = downloadedSize

\* C6: on success the timer is cancelled and one final line is rendered,
\* with the success marker in place of a spinner glyph and the final
\* downloaded total; it is rendered in the step that resolves the call and
\* nothing is rendered after it.
C6_FinalLineIsLast ==
    /\ [](dl = "resolved" =>
            /\ ~timer
            /\ screen.kind = "final"
            /\ screen.glyph = CheckMark
            /\ screen.glyph \notin Range(loadingFrames)
            /\ screen.downloaded = ToFixed2(SumLen(body.chunks)))
    /\ [](screen.kind = "final" => dl = "resolved")
    /\ [][screen.kind = "final" => screen' = screen]_vars
    /\ [][screen'.kind = "final" /\ screen.kind # "final"
            => dl = "reading" /\ dl' = "resolved"]_vars

C6_Witness ==
    /\ dl = "resolved"
    /\ pc = "done"
    /\ screen.kind = "final"
    /\ screen.downloaded > 0
    /\ i >= 2
    /\ nread >= 2

\* C7: with no content-length header every rendered line, tick or final,
\* shows "unknown" as the total, and the missing total makes nothing fail:
\* the call rejects only if reading the body fails.
C7_UnknownTotal ==
    (response.status = "ok" /\ ~totalSize.present) =>
        /\ screen.kind # "none" => screen.total.unknown
        /\ dl = "rejected" => thrown.kind = "read"
        /\ (nread = Len(body.chunks) /\ body.end = "end" /\ dl # "resolved")
              => ENABLED ReadEnd

C7_Witness ==
    /\ response.status = "ok"
    /\ ~totalSize.present
    /\ dl = "resolved"
    /\ screen.kind = "final"
    /\ screen.total.unknown
    /\ screen.downloaded > 0
    /\ i >= 1

\* C8: whenever downloadFile has settled, resolved or rejected, the interval
\* timer has been cancelled.
C8_SettledTimerCancelled ==
    dl \in {"resolved", "rejected"} => ~timer

\* C9: the release list is fetched, then the artifact is downloaded, then
\* the configuration is written, each at most once; application.yml and the
\* launcher scripts are written only after downloadFile has succeeded; a
\* failed download is not retried and ends the run with a non-zero exit
\* status and none of these files written.
C9_RunOrder ==
    /\ [](/\ \A k, m \in 1..Len(log) : log[k] = log[m] => k = m
          /\ log[1] = "fetch releases"
          /\ \A k \in 1..Len(log) :
                /\ log[k] = "downloadFile" => k = 2
                /\ log[k] \in ConfigFiles => (k > 2 /\ log[2] = "downloadFile")
          /\ files = Range(log) \cap ConfigFiles
          /\ files # {} => (dl = "resolved" /\ "application.yml" \in files)
          /\ dl = "rejected" =>
                /\ files = {}
                /\ exitCode \in {"none", "1"}
                /\ exitCode = "none" => pc = "download")
    /\ (dl = "rejected" ~> exitCode = "1")

C9_Witness ==
    /\ pc = "done"
    /\ dl = "resolved"
    /\ files = ConfigFiles
    /\ log = <<"fetch releases", "downloadFile", "fetch example",
               "application.yml", "run.sh", "run.bat">>

\* C10: after a successful response whose body ends after finitely many
\* chunks, downloadFile resolves with the timer stopped, however the ticks
\* interleave with the reads; if a read never returns, the call stays
\* unsettled with the timer scheduled, and the ticks go on for ever (the
\* spinner shows its first and its second glyph again and again).
C10_Termination ==
    /\ (dl = "reading" /\ body.end = "end") ~> (dl = "resolved" /\ ~timer)
    /\ [](StalledBody => timer)
    /\ [][StalledBody => StalledBody']_vars
    /\ StalledBody ~> (screen.glyph = loadingFrames[1])
    /\ StalledBody ~> (screen.glyph = loadingFrames[2])

C10_Witness ==
    /\ dl = "resolved"
    /\ ~timer
    /\ body.end = "end"
    /\ nread >= 2
    /\ i >= 3
====
